---- MODULE Spec2Model ----
(***************************************************************************)
(* Model of pkg/transport/tcp/tcp.go: the Transport of casbin-mesh, its    *)
(* three constructors and Open, Dial, Accept, Close and Addr, together     *)
(* with the part of the operating system and of crypto/tls the methods     *)
(* act on: the table of listening sockets, their accept queues and the     *)
(* connections made by Dial.                                               *)
(*                                                                         *)
(* Threads: one caller of Open and Close (both atomic), one acceptor       *)
(* (Accept blocks, so it is a call step and a return step) and any number  *)
(* of callers of Dial.                                                     *)
(***************************************************************************)
EXTENDS Naturals, Sequences, FiniteSets

VARIABLES
    t,       \* the Transport struct (tcp.go:40-49)
    ctor,    \* the constructor call that built t, with its arguments
    socks,   \* every listening socket bound so far, in order of binding
    conns,   \* every TCP connection established so far
    acc,     \* the thread calling Accept
    dial,    \* the thread blocked in Dial on a peer that does not answer
    ret      \* the last call that returned (or panicked), with its results

vars == <<t, ctor, socks, conns, acc, dial, ret>>

----------------------------------------------------------------------------
(* Bounds of the model. *)

\* Listening sockets in one run, the adopted listener included.
MaxSock == 2
\* TCP connections established in one run.
MaxConn == 2


----------------------------------------------------------------------------
(* Inputs. *)

\* The nil net.Listener.
NoListener == 0
\* No net.Conn.
NoConn == 0

\* Bind addresses handed to Open; "bad" does not parse as host:port.
ValidAddrs == {"a1", "a2"}
OpenAddrs == ValidAddrs \cup {"bad"}
\* Remote addresses handed to Dial.
DialAddrs == {"a1", "blackhole"}
\* Dial timeouts; 0 is "no timeout".
Timeouts == {0, 1}

\* Certificate and key paths; "missing.pem" does not exist.
CertFiles == {"", "selfsigned.pem", "missing.pem"}
KeyFiles == {"", "key.pem"}
\* Advertised addresses handed to the adopting constructor.
AdvAddrs == {"node1"}
\* What a listener presents to a TLS client: "none" is a plain listener.
Certs == {"none", "selfsigned", "trusted"}

----------------------------------------------------------------------------
(* type Addr *)

MkAddr(hostname) == [Hostname |-> hostname]

Network(addr) == "tcp"

String(addr) == addr.Hostname

----------------------------------------------------------------------------
(* Constructors. *)

\* The zero Transport: Go's zero value of every field.
ZeroTransport ==
    [ln |-> NoListener, advAddr |-> MkAddr(""), certFile |-> "", certKey |-> "",
     remoteEncrypted |-> FALSE, skipVerify |-> FALSE, srcIP |-> ""]

NewTransport == ZeroTransport

NewTLSTransport(certFile, keyPath, skipVerify) ==
    [ZeroTransport EXCEPT !.certFile = certFile,
                          !.certKey = keyPath,
                          !.remoteEncrypted = TRUE,
                          !.skipVerify = skipVerify]

NewTransportFromListener(ln, remoteEncrypted, skipVerify, addr) ==
    [ZeroTransport EXCEPT !.ln = ln,
                          !.remoteEncrypted = remoteEncrypted,
                          !.skipVerify = skipVerify,
                          !.advAddr = MkAddr(addr)]

----------------------------------------------------------------------------
(* Listening sockets and connections. *)

\* A listening socket: origin is "external" for a listener made outside the
\* Transport, "Open" for one a successful Open stored, "OpenFailed" for one
\* bound by an Open that then returned an error.
Socket(addr, cert, origin) ==
    [addr |-> addr, open |-> TRUE, cert |-> cert, origin |-> origin, queue |-> <<>>]

SockIds == 1..Len(socks)

\* The open listening sockets bound to addr.
Listening(addr) == {i \in SockIds : socks[i].open /\ socks[i].addr = addr}

\* net.Listen("tcp", addr): the error, "nil" for none.
ListenErr(addr) ==
    IF addr \notin ValidAddrs THEN "bind"
    ELSE IF Listening(addr) # {} THEN "bind"
    ELSE "nil"

\* tls.LoadX509KeyPair
LoadX509KeyPair(certFile, keyFile) ==
    IF certFile = "selfsigned.pem" /\ keyFile = "key.pem"
    THEN [err |-> "nil", cert |-> "selfsigned"]
    ELSE [err |-> "cert", cert |-> "none"]

createTLSConfig(certFile, keyFile) == LoadX509KeyPair(certFile, keyFile)

\* Result record of a call.
Ret(op, err, sock, conn, tls, peer) ==
    [op |-> op, err |-> err, sock |-> sock, conn |-> conn, tls |-> tls, peer |-> peer]

Panicked == ret.err = "panic"

----------------------------------------------------------------------------
(* Open *)

\* Mutant: the listener is wrapped when a key path is configured.
OpenWrapsTLS_OnKey(tr) == tr.certKey # ""

\* tcp.go:77
OpenWrapsTLS(tr) == tr.certFile # ""

\* tcp.go:85
OpenStore(tr, id) == [tr EXCEPT !.ln = id]

\* Mutant: Open stores the raw listener before the certificate is loaded.
Open_StoresEarly(addr) ==
    /\ ~Panicked
    /\ IF ListenErr(addr) # "nil"
       THEN /\ ret' = Ret("Open", ListenErr(addr), NoListener, NoConn, FALSE, "none")
            /\ UNCHANGED <<t, socks>>
       ELSE LET id == Len(socks) + 1
                config == createTLSConfig(t.certFile, t.certKey)
            IN  /\ Len(socks) < MaxSock
                /\ t' = OpenStore(t, id)
                /\ IF OpenWrapsTLS(t) /\ config.err # "nil"
                   THEN /\ socks' = Append(socks, Socket(addr, "none", "OpenFailed"))
                        /\ ret' = Ret("Open", config.err, id, NoConn, FALSE, "none")
                   ELSE /\ socks' = Append(socks,
                               Socket(addr,
                                      IF OpenWrapsTLS(t) THEN config.cert ELSE "none",
                                      "Open"))
                        /\ ret' = Ret("Open", "nil", id, NoConn, FALSE, "none")
    /\ UNCHANGED <<ctor, conns, acc, dial>>

Open(addr) ==
    /\ ~Panicked
    /\ IF ListenErr(addr) # "nil"
       THEN /\ ret' = Ret("Open", ListenErr(addr), NoListener, NoConn, FALSE, "none")
            /\ UNCHANGED <<t, socks>>
       ELSE LET id == Len(socks) + 1
                config == createTLSConfig(t.certFile, t.certKey)
            IN  /\ Len(socks) < MaxSock
                /\ IF OpenWrapsTLS(t) /\ config.err # "nil"
                   THEN /\ socks' = Append(socks, Socket(addr, "none", "OpenFailed"))
                        /\ ret' = Ret("Open", config.err, id, NoConn, FALSE, "none")
                        /\ UNCHANGED t
                   ELSE /\ socks' = Append(socks,
                               Socket(addr,
                                      IF OpenWrapsTLS(t) THEN config.cert ELSE "none",
                                      "Open"))
                        /\ t' = OpenStore(t, id)
                        /\ ret' = Ret("Open", "nil", id, NoConn, FALSE, "none")
    /\ UNCHANGED <<ctor, conns, acc, dial>>

----------------------------------------------------------------------------
(* Close *)

\* net.Listener.Close on socket i: the socket table afterwards.  Connections
\* still waiting in the accept queue are dropped.
lnClose(ss, i) == [ss EXCEPT ![i].open = FALSE, ![i].queue = <<>>]

\* Mutant: Close returns nil and leaves the listener open.
Close_LeavesOpen ==
    /\ ~Panicked
    /\ ret' = Ret("Close", "nil", t.ln, NoConn, FALSE, "none")
    /\ UNCHANGED <<t, ctor, socks, conns, acc, dial>>

\* Mutant: Close without the nil test calls Close on the nil listener.
Close_NoNilTest ==
    /\ ~Panicked
    /\ IF t.ln # NoListener
       THEN /\ socks' = lnClose(socks, t.ln)
            /\ ret' = Ret("Close", IF socks[t.ln].open THEN "nil" ELSE "closed",
                          t.ln, NoConn, FALSE, "none")
       ELSE /\ ret' = Ret("Close", "panic", NoListener, NoConn, FALSE, "none")
            /\ UNCHANGED socks
    /\ conns' = [c \in DOMAIN conns |->
                    IF conns[c].sock = t.ln /\ conns[c].server = "queued"
                    THEN [conns[c] EXCEPT !.server = "reset"]
                    ELSE conns[c]]
    /\ UNCHANGED <<t, ctor, acc, dial>>

\* Mutant: Close also tears down the connections accepted from the listener.
Close_ClosesAccepted ==
    /\ ~Panicked
    /\ IF t.ln # NoListener
       THEN /\ socks' = lnClose(socks, t.ln)
            /\ conns' = [c \in DOMAIN conns |->
                            IF conns[c].sock = t.ln
                            THEN [conns[c] EXCEPT !.server = "reset"]
                            ELSE conns[c]]
            /\ ret' = Ret("Close", IF socks[t.ln].open THEN "nil" ELSE "closed",
                          t.ln, NoConn, FALSE, "none")
       ELSE /\ ret' = Ret("Close", "nil", NoListener, NoConn, FALSE, "none")
            /\ UNCHANGED <<socks, conns>>
    /\ UNCHANGED <<t, ctor, acc, dial>>

Close ==
    /\ ~Panicked
    /\ IF t.ln # NoListener
       THEN /\ socks' = lnClose(socks, t.ln)
            /\ conns' = [c \in DOMAIN conns |->
                            IF conns[c].sock = t.ln /\ conns[c].server = "queued"
                            THEN [conns[c] EXCEPT !.server = "reset"]
                            ELSE conns[c]]
            /\ ret' = Ret("Close", IF socks[t.ln].open THEN "nil" ELSE "closed",
                          t.ln, NoConn, FALSE, "none")
       ELSE /\ ret' = Ret("Close", "nil", NoListener, NoConn, FALSE, "none")
            /\ UNCHANGED <<socks, conns>>
    /\ UNCHANGED <<t, ctor, acc, dial>>

----------------------------------------------------------------------------
(* Accept *)

\* The call: t.ln is read and its Accept method invoked; on the nil
\* interface that is a nil-pointer dereference, which panics.
AcceptCall ==
    /\ ~Panicked
    /\ acc.pc = "idle"
    /\ IF t.ln = NoListener
       THEN /\ ret' = Ret("Accept", "panic", NoListener, NoConn, FALSE, "none")
            /\ UNCHANGED acc
       ELSE /\ acc' = [pc |-> "blocked", ln |-> t.ln]
            /\ UNCHANGED ret
    /\ UNCHANGED <<t, ctor, socks, conns, dial>>

\* Mutant: the accepted connection is left in the accept queue.
AcceptReturn_NoPop ==
    /\ ~Panicked
    /\ acc.pc = "blocked"
    /\ LET s == socks[acc.ln] IN
       IF ~s.open
       THEN /\ ret' = Ret("Accept", "closed", acc.ln, NoConn, FALSE, "none")
            /\ UNCHANGED <<socks, conns>>
       ELSE /\ s.queue # <<>>
            /\ LET c == Head(s.queue) IN
               /\ conns' = [conns EXCEPT ![c].server = "accepted"]
               /\ ret' = Ret("Accept", "nil", acc.ln, c, s.cert # "none", "none")
               /\ UNCHANGED socks
    /\ acc' = [pc |-> "idle", ln |-> NoListener]
    /\ UNCHANGED <<t, ctor, dial>>

\* The return: with an error once the listener is closed, with the head of
\* the accept queue otherwise.
AcceptReturn ==
    /\ ~Panicked
    /\ acc.pc = "blocked"
    /\ LET s == socks[acc.ln] IN
       IF ~s.open
       THEN /\ ret' = Ret("Accept", "closed", acc.ln, NoConn, FALSE, "none")
            /\ UNCHANGED <<socks, conns>>
       ELSE /\ s.queue # <<>>
            /\ LET c == Head(s.queue) IN
               /\ socks' = [socks EXCEPT ![acc.ln].queue = Tail(s.queue)]
               /\ conns' = [conns EXCEPT ![c].server = "accepted"]
               /\ ret' = Ret("Accept", "nil", acc.ln, c, s.cert # "none", "none")
    /\ acc' = [pc |-> "idle", ln |-> NoListener]
    /\ UNCHANGED <<t, ctor, dial>>

----------------------------------------------------------------------------
(* Dial *)

\* tcp.go:93-99: the dialer's LocalAddr; "os" when the OS chooses it.
LocalAddr(tr) ==
    IF tr.srcIP # "" THEN [IP |-> tr.srcIP, Port |-> 0] ELSE [IP |-> "os", Port |-> 0]

\* Mutant: Dial negotiates TLS when a certificate is configured.
DialUsesTLS_OnCert(tr) == tr.certFile # ""

\* tcp.go:103
DialUsesTLS(tr) == tr.remoteEncrypted

\* Mutant: the peer is never verified.
InsecureSkipVerify_Always(tr) == TRUE

\* tcp.go:105
InsecureSkipVerify(tr) == tr.skipVerify

\* The result of the client handshake of crypto/tls with a listener that
\* presents cert.
HandshakeErr(cert, skip) ==
    IF cert = "none" THEN "handshake"
    ELSE IF cert = "selfsigned" /\ ~skip THEN "verify"
    ELSE "nil"

\* tcp.go:92-99: the net.Dialer of the call.
NetDialer(tr, timeout) == [Timeout |-> timeout, LocalAddr |-> LocalAddr(tr)]

\* tcp.go:108: tls.DialWithDialer dials with the dialer it is given, whose
\* Timeout bounds the connect and the handshake as a whole.
TLSDialer(dialer) == dialer

\* The dialer the connect runs with.
UsedDialer(tr, timeout) ==
    IF DialUsesTLS(tr) THEN TLSDialer(NetDialer(tr, timeout)) ELSE NetDialer(tr, timeout)

\* Mutant: Dial refuses to dial while the transport has no listener.
DialResult_NeedsListener(tr, addr, timeout) ==
    IF tr.ln = NoListener
    THEN [err |-> "closed", sock |-> NoListener, tcp |-> FALSE]
    ELSE IF addr = "blackhole"
    THEN [err |-> "unanswered", sock |-> NoListener, tcp |-> FALSE]
    ELSE IF Listening(addr) = {}
    THEN [err |-> "refused", sock |-> NoListener, tcp |-> FALSE]
    ELSE LET i == CHOOSE j \in Listening(addr) : TRUE IN
         [err |-> IF DialUsesTLS(tr)
                  THEN HandshakeErr(socks[i].cert, InsecureSkipVerify(tr))
                  ELSE "nil",
          sock |-> i, tcp |-> TRUE]

\* What dialing addr gives: the error, the listening socket reached and
\* whether a TCP connection was established.  "blackhole" never answers the
\* connect: the error is "unanswered" and the call blocks.
DialResult(tr, addr, timeout) ==
    IF addr = "blackhole"
    THEN [err |-> "unanswered", sock |-> NoListener, tcp |-> FALSE]
    ELSE IF Listening(addr) = {}
    THEN [err |-> "refused", sock |-> NoListener, tcp |-> FALSE]
    ELSE LET i == CHOOSE j \in Listening(addr) : TRUE IN
         [err |-> IF DialUsesTLS(tr)
                  THEN HandshakeErr(socks[i].cert, InsecureSkipVerify(tr))
                  ELSE "nil",
          sock |-> i, tcp |-> TRUE]

\* No thread is blocked in Dial.
IdleDial == [pc |-> "idle", timeout |-> 0, deadline |-> 0]

\* Dial.  The call reads fields that never change after construction and
\* touches nothing shared but the peer's accept queue, so a call that is
\* answered and its return are one step, which any number of threads may
\* take; a call that is not answered blocks its thread.
Dial(addr, timeout) ==
    LET r == DialResult(t, addr, timeout)
        dialer == UsedDialer(t, timeout)
        c == Len(conns) + 1
    IN
    /\ ~Panicked
    /\ IF r.err = "unanswered"
       THEN /\ dial.pc = "idle"
            /\ dial' = [pc |-> "blocked", timeout |-> timeout,
                        deadline |-> dialer.Timeout]
            /\ UNCHANGED <<socks, conns, ret>>
       ELSE /\ IF r.tcp
               THEN /\ Len(conns) < MaxConn
                    /\ conns' = Append(conns,
                            [sock |-> r.sock, tls |-> DialUsesTLS(t),
                             local |-> dialer.LocalAddr,
                             client |-> IF r.err = "nil" THEN "open" ELSE "closed",
                             server |-> "queued"])
                    /\ socks' = [socks EXCEPT ![r.sock].queue = Append(@, c)]
               ELSE UNCHANGED <<socks, conns>>
            /\ ret' = Ret("Dial", r.err, r.sock, IF r.err = "nil" THEN c ELSE NoConn,
                          DialUsesTLS(t),
                          IF DialUsesTLS(t) /\ r.tcp THEN socks[r.sock].cert ELSE "none")
            /\ UNCHANGED dial
    /\ UNCHANGED <<t, ctor, acc>>

\* The dialer's Timeout expires: the blocked Dial returns a timeout error.
DialExpire ==
    /\ ~Panicked
    /\ dial.pc = "blocked"
    /\ dial.deadline > 0
    /\ dial' = IdleDial
    /\ ret' = Ret("Dial", "timeout", NoListener, NoConn, DialUsesTLS(t), "none")
    /\ UNCHANGED <<t, ctor, socks, conns, acc>>

\* Without a Timeout the blocked Dial returns when the OS gives the connect
\* up, if it does.
DialGiveUp ==
    /\ ~Panicked
    /\ dial.pc = "blocked"
    /\ dial.deadline = 0
    /\ dial' = IdleDial
    /\ ret' = Ret("Dial", "etimedout", NoListener, NoConn, DialUsesTLS(t), "none")
    /\ UNCHANGED <<t, ctor, socks, conns, acc>>

----------------------------------------------------------------------------
(* Addr *)

\* Mutant: Addr reports the address the listener is bound to.
Addr_OfListener(tr) ==
    IF tr.ln # NoListener THEN MkAddr(socks[tr.ln].addr) ELSE tr.advAddr

Addr(tr) == tr.advAddr

----------------------------------------------------------------------------
(* The specification. *)

Ctor(kind, certFile, keyPath, skipVerify, remoteEncrypted, addr, ln) ==
    [kind |-> kind, certFile |-> certFile, keyPath |-> keyPath,
     skipVerify |-> skipVerify, remoteEncrypted |-> remoteEncrypted,
     addr |-> addr, ln |-> ln]

InitPlain ==
    /\ ctor = Ctor("NewTransport", "", "", FALSE, FALSE, "", NoListener)
    /\ t = NewTransport
    /\ socks = <<>>

InitTLS ==
    \E cf \in CertFiles, kf \in KeyFiles, sv \in BOOLEAN :
        /\ ctor = Ctor("NewTLSTransport", cf, kf, sv, TRUE, "", NoListener)
        /\ t = NewTLSTransport(cf, kf, sv)
        /\ socks = <<>>

\* The adopted listener is nil or a listener made outside, bound to "a1".
InitFromListener ==
    \E re \in BOOLEAN, sv \in BOOLEAN, addr \in AdvAddrs :
        \/ /\ ctor = Ctor("NewTransportFromListener", "", "", sv, re, addr, NoListener)
           /\ t = NewTransportFromListener(NoListener, re, sv, addr)
           /\ socks = <<>>
        \/ \E cert \in Certs :
           /\ ctor = Ctor("NewTransportFromListener", "", "", sv, re, addr, 1)
           /\ t = NewTransportFromListener(1, re, sv, addr)
           /\ socks = <<Socket("a1", cert, "external")>>

Init ==
    /\ InitPlain \/ InitTLS \/ InitFromListener
    /\ conns = <<>>
    /\ acc = [pc |-> "idle", ln |-> NoListener]
    /\ dial = IdleDial
    /\ ret = Ret("none", "nil", NoListener, NoConn, FALSE, "none")

Next ==
    \/ \E addr \in OpenAddrs : Open(addr)
    \/ Close
    \/ AcceptCall
    \/ AcceptReturn
    \/ \E addr \in DialAddrs, timeout \in Timeouts : Dial(addr, timeout)
    \/ DialExpire
    \/ DialGiveUp

Spec == Init /\ [][Next]_vars

\* A blocked Accept whose listener is closed, or whose queue holds a
\* connection, is woken by the runtime, and so is a blocked Dial whose
\* Timeout has expired.
FairSpec == Spec /\ WF_vars(AcceptReturn) /\ WF_vars(DialExpire)

----------------------------------------------------------------------------
(* The claims. *)

\* The listener a successful Open of this transport stored and that the
\* transport still owns.
OwnedByOpen == {i \in SockIds : t.ln = i /\ socks[i].origin = "Open"}

\* C1: an Open that returns a certificate error leaves no listening socket
\* bound by that call open: nothing stays bound after the failed call.
C1_FailedOpenLeavesNothingBound ==
    (ret.op = "Open" /\ ret.err = "cert") =>
        (ret.sock = NoListener \/ ~socks[ret.sock].open)

\* C2: Accept on a transport that owns no listener returns a
\* transport-closed error; it neither crashes nor blocks.
C2_AcceptWithoutListenerReturnsClosed ==
    (ret.op = "Accept" /\ t.ln = NoListener) => ret.err = "closed"

\* C3: once the listener field is set it is never written again: no call
\* replaces the listener the transport owns.
C3_ListenerWrittenOnce ==
    [][t.ln # NoListener => t'.ln = t.ln]_vars

\* C4: a thread blocked in Accept on the owned listener when Close returns
\* eventually returns from Accept with the closed-listener error and no
\* connection; a blocked Accept returns an error only when its listener is
\* closed, a listener is closed only by Close, and no connection reaches
\* the queue of a closed listener.
C4_CloseUnblocksAccept ==
    /\ (acc.pc = "blocked" /\ acc.ln = t.ln /\ ret.op = "Close")
          ~> (acc.pc = "idle" /\ ret.op = "Accept" /\ ret.err = "closed"
              /\ ret.conn = NoConn)
    /\ [][(acc.pc = "blocked" /\ acc'.pc = "idle") =>
            /\ ret'.op = "Accept"
            /\ IF socks[acc.ln].open
               THEN ret'.err = "nil" /\ ret'.conn = Head(socks[acc.ln].queue)
               ELSE ret'.err = "closed" /\ ret'.conn = NoConn]_vars
    /\ [][\A i \in SockIds :
            /\ (socks[i].open /\ ~socks'[i].open) => (ret'.op = "Close" /\ t.ln = i)
            /\ ~socks[i].open => (~socks'[i].open /\ socks'[i].queue = <<>>)]_vars

\* C4, witness: the acceptor is blocked on the owned listener and Close has
\* just closed it.
C4_Witness ==
    /\ acc.pc = "blocked" /\ acc.ln = t.ln
    /\ ret.op = "Close" /\ ret.err = "nil"
    /\ ~socks[t.ln].open

\* C5: after a Close, every listening socket a successful Open of the
\* transport bound is closed.
C5_CloseLeavesNoSocketOpen ==
    ret.op = "Close" =>
        \A i \in SockIds : socks[i].origin = "Open" => ~socks[i].open

\* C6: Close on a transport that owns no listener returns nil and changes
\* nothing but the record of the last return.
C6_CloseWithoutListenerIsNoOp ==
    [][(t.ln = NoListener /\ ret'.op = "Close" /\ ret' # ret) =>
          (ret'.err = "nil" /\ UNCHANGED <<t, ctor, socks, conns, acc, dial>>)]_vars

\* C6, witness: Close has returned nil on a transport without a listener.
C6_Witness ==
    ret.op = "Close" /\ ret.err = "nil" /\ t.ln = NoListener

\* C7: Dial negotiates TLS exactly when remoteEncrypted is set, and the
\* connection it returns is a TLS connection exactly then; remoteEncrypted
\* is false after NewTransport, true after NewTLSTransport and the argument
\* after NewTransportFromListener.
C7_DialTLSIffRemoteEncrypted ==
    /\ ret.op = "Dial" => (ret.tls <=> t.remoteEncrypted)
    /\ \A c \in DOMAIN conns : conns[c].tls <=> t.remoteEncrypted
    /\ ctor.kind = "NewTransport" => ~t.remoteEncrypted
    /\ ctor.kind = "NewTLSTransport" => t.remoteEncrypted
    /\ ctor.kind = "NewTransportFromListener" =>
          (t.remoteEncrypted <=> ctor.remoteEncrypted)

\* C7, witness: a transport built by NewTLSTransport without a certificate
\* path has dialled a listener with TLS.
C7_Witness ==
    /\ ctor.kind = "NewTLSTransport" /\ t.certFile = ""
    /\ ret.op = "Dial" /\ ret.tls /\ ret.sock # NoListener

\* C8: a TLS dial to a listener that presents a self-signed certificate
\* returns a connection when skipVerify is set, and a verification error
\* and no connection when it is not.
C8_SelfSignedNeedsSkipVerify ==
    (ret.op = "Dial" /\ ret.tls /\ ret.peer = "selfsigned") =>
        IF t.skipVerify
        THEN ret.err = "nil" /\ ret.conn # NoConn /\ conns[ret.conn].client = "open"
        ELSE ret.err = "verify" /\ ret.conn = NoConn

\* C8, witness: a TLS dial to a self-signed listener has failed verification.
C8_Witness ==
    /\ ret.op = "Dial" /\ ret.tls /\ ret.peer = "selfsigned"
    /\ ~t.skipVerify /\ ret.err = "verify"

\* C9 as stated: the listener a successful Open stored is TLS-wrapped exactly
\* when a certificate path is configured, and its encryption always agrees
\* with that of the transport's dials.
C9_ListenerAndDialAlwaysAgree ==
    \A i \in OwnedByOpen :
        /\ (socks[i].cert # "none") <=> (t.certFile # "")
        /\ (socks[i].cert # "none") <=> DialUsesTLS(t)

\* C9 as amended: the listener a successful Open stored is TLS-wrapped
\* exactly when a certificate path is configured; after NewTransport the
\* listener and the dials are both plain, after NewTLSTransport with a
\* non-empty certificate path both use TLS.
C9_ListenerTLSIffCertFile ==
    \A i \in OwnedByOpen :
        /\ (socks[i].cert # "none") <=> (t.certFile # "")
        /\ ctor.kind = "NewTransport" =>
              (socks[i].cert = "none" /\ ~DialUsesTLS(t))
        /\ (ctor.kind = "NewTLSTransport" /\ ctor.certFile # "") =>
              (socks[i].cert # "none" /\ DialUsesTLS(t))

\* C9, witness: Open has stored a TLS-wrapped listener.
C9_Witness ==
    \E i \in OwnedByOpen : socks[i].cert # "none" /\ ret.op = "Open"

Usable(cs, c) == cs[c].client = "open" /\ cs[c].server # "reset"

\* A step in which Close returns.
CloseStep == ret'.op = "Close" /\ ret' # ret

\* C11 as stated: every connection that was open and usable before a Close
\* is open and usable after it.
C11_CloseKeepsEveryConnection ==
    [][CloseStep => \A c \in DOMAIN conns : Usable(conns, c) => Usable(conns', c)]_vars

\* C11 as amended: Close changes the listener and nothing of the transport;
\* it closes no end of a connection that Accept has returned and no client
\* end; the only connections it affects are those still waiting in the
\* accept queue of the closed listener, which are reset.
C11_CloseKeepsAcceptedConnections ==
    [][CloseStep =>
          /\ t' = t /\ acc' = acc /\ dial' = dial
          /\ DOMAIN conns' = DOMAIN conns
          /\ \A c \in DOMAIN conns :
                /\ conns'[c].client = conns[c].client
                /\ conns[c].server = "accepted" => conns'[c] = conns[c]
                /\ conns'[c] # conns[c] =>
                      /\ conns[c].server = "queued" /\ conns[c].sock = t.ln
                      /\ conns'[c] = [conns[c] EXCEPT !.server = "reset"]]_vars

\* C11, witness: Close has closed a listener from which a connection was
\* accepted, and that connection is still open at both ends.
C11_Witness ==
    /\ ret.op = "Close" /\ ret.err = "nil"
    /\ \E c \in DOMAIN conns :
          conns[c].sock = ret.sock /\ conns[c].server = "accepted" /\ Usable(conns, c)

\* How often connection c occurs in accept queue q.
Occ(q, c) == Cardinality({k \in 1..Len(q) : q[k] = c})

\* C12: every connection a Dial made waits exactly once in the accept queue
\* of the listener it reached, and in no other, until Accept returns it;
\* Accept returns only a connection that waits in the queue of its listener
\* and was never returned before, and a connection keeps its listener and,
\* once accepted, stays accepted: no two Accept calls return the same
\* connection and an accepted connection belongs to exactly one dial.
C12_DistinctConnections ==
    /\ [](\A c \in DOMAIN conns : \A i \in SockIds :
              Occ(socks[i].queue, c) =
                  IF i = conns[c].sock /\ conns[c].server = "queued" THEN 1 ELSE 0)
    /\ [][(acc.pc = "blocked" /\ acc'.pc = "idle" /\ ret'.conn # NoConn) =>
              /\ ret'.conn \in DOMAIN conns
              /\ conns[ret'.conn].server = "queued"
              /\ conns[ret'.conn].sock = acc.ln
              /\ conns'[ret'.conn].server = "accepted"]_vars
    /\ [][\A c \in DOMAIN conns :
              /\ c \in DOMAIN conns'
              /\ conns'[c].sock = conns[c].sock
              /\ conns[c].server = "accepted" => conns'[c].server = "accepted"]_vars

\* C12, witness: two dials to one listener have both succeeded and both
\* connections have been accepted.
C12_Witness ==
    /\ Len(conns) = 2
    /\ conns[1].sock = conns[2].sock
    /\ \A c \in DOMAIN conns : conns[c].server = "accepted" /\ conns[c].client = "open"

\* C13: a Dial called with a positive timeout that is blocked eventually
\* returns, with a timeout error and no connection.
C13_DialWithTimeoutReturns ==
    (dial.pc = "blocked" /\ dial.timeout > 0)
        ~> (dial.pc = "idle" /\ ret.op = "Dial" /\ ret.err = "timeout"
            /\ ret.conn = NoConn)

\* Source IPs a caller may want to dial from.
SrcIPs == {"10.0.0.1"}

\* Every transport the three constructors return.
Constructed ==
    {NewTransport}
    \cup {NewTLSTransport(cf, kf, sv) : cf \in CertFiles, kf \in KeyFiles, sv \in BOOLEAN}
    \cup {NewTransportFromListener(ln, re, sv, addr) :
              ln \in {NoListener, 1}, re \in BOOLEAN, sv \in BOOLEAN, addr \in AdvAddrs}

\* C14: every source IP can be configured by some constructor call, and the
\* local endpoint of every dialled connection is the configured source IP
\* with port 0, or chosen by the OS when none is configured.
C14_SourceIPConfigurable ==
    /\ \A ip \in SrcIPs : \E tr \in Constructed : tr.srcIP = ip
    /\ \A c \in DOMAIN conns :
          conns[c].local = IF t.srcIP # "" THEN [IP |-> t.srcIP, Port |-> 0]
                           ELSE [IP |-> "os", Port |-> 0]

\* C15: an Open that returns an error leaves every field of the transport
\* unchanged, and Accept and Close act on the listener the transport holds.
C15_FailedOpenChangesNothing ==
    /\ [][(ret'.op = "Open" /\ ret' # ret /\ ret'.err # "nil") => t' = t]_vars
    /\ [][(acc.pc = "idle" /\ acc'.pc = "blocked") => acc'.ln = t.ln]_vars
    /\ [][CloseStep => ret'.sock = t.ln]_vars

\* C15, witness: an Open has failed on a transport that owns an open
\* listener.
C15_Witness ==
    /\ ret.op = "Open" /\ ret.err # "nil"
    /\ t.ln # NoListener /\ socks[t.ln].open

\* Some Close has closed a listener of the transport.
SomeClosed == \E i \in SockIds : ~socks[i].open

\* C16: the listener field never returns to nil; once a Close has closed the
\* listener, every later Accept is called on a closed listener (it returns
\* the error without blocking) and every later Close returns the closed
\* listener's error.
C16_AfterCloseAlwaysClosed ==
    /\ [][t.ln # NoListener => t'.ln # NoListener]_vars
    /\ [][(SomeClosed /\ acc.pc = "idle" /\ acc'.pc = "blocked") =>
              ~socks[acc'.ln].open]_vars
    /\ [][(SomeClosed /\ CloseStep) => ret'.err = "closed"]_vars

\* A step of Dial: a call that blocks, a return, or a connection made.
DialStep ==
    \/ dial' # dial
    \/ Len(conns') > Len(conns)
    \/ ret'.op = "Dial" /\ ret' # ret

\* C17: what Dial does and returns is the same whatever the listener field
\* holds, and a step of Dial changes no field of the transport and nothing
\* of the thread in Accept.
C17_DialIgnoresListener ==
    /\ [](\A x \in SockIds \cup {NoListener}, addr \in DialAddrs, timeout \in Timeouts :
              /\ DialResult([t EXCEPT !.ln = x], addr, timeout)
                    = DialResult(t, addr, timeout)
              /\ UsedDialer([t EXCEPT !.ln = x], timeout) = UsedDialer(t, timeout))
    /\ [][DialStep => (t' = t /\ acc' = acc)]_vars

\* C17, witness: Dial has returned a connection on a transport whose
\* listener is closed.
C17_Witness ==
    /\ ret.op = "Dial" /\ ret.err = "nil" /\ ret.conn # NoConn
    /\ t.ln # NoListener /\ ~socks[t.ln].open

====
